---- MODULE Spec2Model ----
(***************************************************************************)
(* Model of setup.py, the project-skeleton script.                         *)
(*                                                                         *)
(* The script walks the list `estructura`; for every entry it creates the  *)
(* missing parent directories (os.makedirs) and opens the entry for        *)
(* writing (open(path, "w")), which creates or truncates it.  Nothing is   *)
(* written into the file.  Any OSError is uncaught and ends the script.    *)
(*                                                                         *)
(* A path is the sequence of its "/"-separated components, so that         *)
(* os.path.dirname and str.endswith("/") are computed and not assumed:     *)
(* "src/app.js" is <<"src", "app.js">>, and a path with a trailing slash   *)
(* would end in the empty component "".                                    *)
(*                                                                         *)
(* The file system below the working directory is a function from paths to *)
(* nodes: absent, a directory, or a regular file of some length.  Symbolic *)
(* links and permissions are not modelled.                                 *)
(***************************************************************************)
EXTENDS Integers, Sequences, FiniteSets, TLC

\* ------------------------------------------------------------------ bounds

\* Largest length of a regular file that exists before the script runs.
MaxSize == 1

\* Largest number of paths (each with its ancestors) that exist beforehand.
MaxPre == 2

\* Number of times the script is run one after the other.
MaxRuns == 2

\* ------------------------------------------------------------ program data

estructura ==
  << <<"src", "app.js">>,
     <<"src", "server.js">>,
     <<"src", "config", "index.js">>,
     <<"src", "config", "database.js">>,
     <<"src", "config", "logger.js">>,
     <<"src", "database", "schema.prisma">>,
     <<"src", "database", "migrations", ".gitkeep">>,
     <<"src", "services", "whatsappService.js">>,
     <<"src", "services", "aiService.js">>,
     <<"src", "services", "ragService.js">>,
     <<"src", "services", "documentService.js">>,
     <<"src", "services", "sheetsService.js">>,
     <<"src", "services", "emailService.js">>,
     <<"src", "core", "conversationManager.js">>,
     <<"src", "core", "fieldTracker.js">>,
     <<"src", "core", "completionChecker.js">>,
     <<"src", "controllers", "webhookController.js">>,
     <<"src", "controllers", "simulatorController.js">>,
     <<"src", "controllers", "adminController.js">>,
     <<"src", "middleware", "errorHandler.js">>,
     <<"src", "middleware", "validation.js">>,
     <<"src", "middleware", "auth.js">>,
     <<"src", "routes", "index.js">>,
     <<"src", "routes", "webhooks.js">>,
     <<"src", "routes", "admin.js">>,
     <<"src", "routes", "simulator.js">>,
     <<"src", "utils", "constants.js">>,
     <<"src", "utils", "helpers.js">>,
     <<"src", "utils", "validators.js">>,
     <<"src", "types", "index.js">>,
     <<"src", "types", "schemas.js">>,
     <<"knowledge-base", "real-estate-data.json">>,
     <<"scripts", "simulate-form.js">>,
     <<"scripts", "load-knowledge.js">>,
     <<"scripts", "test-conversation.js">>,
     <<"tests", "unit", ".gitkeep">>,
     <<"tests", "integration", ".gitkeep">>,
     <<".env.example">>,
     <<".env">>,
     <<"package.json">>,
     <<"package-lock.json">>,
     <<"tsconfig.json">>,
     <<".gitignore">>,
     <<"README.md">>,
     <<"Dockerfile">> >>

\* The entries of the list, as a set.
Listed == {estructura[k] : k \in 1..Len(estructura)}

\* --------------------------------------------------------------- paths

\* os.path.dirname: everything before the last "/"; "" for a bare name.
dirname(path) == SubSeq(path, 1, Len(path) - 1)

\* str.endswith("/"): the component after the last "/" is empty.
endswithSlash(path) == path # <<>> /\ path[Len(path)] = ""

\* The proper ancestors of a path: its non-empty proper prefixes.
Ancestors(path) == {SubSeq(path, 1, k) : k \in 1..(Len(path) - 1)}

\* Paths of the working directory that are not entries of the list and not
\* ancestors of one: files a user may have there.
Unlisted == { <<"notes.txt">>, <<"src", "extra.js">> }

\* Every path the model tracks.
Paths == UNION {Ancestors(p) \cup {p} : p \in Listed \cup Unlisted}

\* --------------------------------------------------------------- nodes

Absent == [kind |-> "absent", size |-> 0]
Dir == [kind |-> "dir", size |-> 0]
File(n) == [kind |-> "file", size |-> n]

\* os.path.exists: stat succeeds.  A path below a regular file does not exist.
exists(f, path) == f[path].kind # "absent"

\* os.path.isdir
isdir(f, path) == f[path].kind = "dir"

\* The parent of a path is usable: the path is at top level of the working
\* directory, or its parent is a directory.
ParentIsDir(f, path) == dirname(path) = <<>> \/ isdir(f, dirname(path))

\* os.mkdir: fails (FileExistsError, FileNotFoundError, NotADirectoryError)
\* when the path exists or its parent is not a directory.
mkdir(f, path) ==
  IF exists(f, path) \/ ~ParentIsDir(f, path)
  THEN [fs |-> f, ok |-> FALSE]
  ELSE [fs |-> [f EXCEPT ![path] = Dir], ok |-> TRUE]

\* os.makedirs(name, exist_ok=True): creates the missing ancestors first (an
\* error there is swallowed only when it is FileExistsError, and the ancestor
\* was just seen not to exist), then the leaf; an error of the leaf's mkdir is
\* swallowed when the leaf is a directory already.
RECURSIVE makedirs(_, _)
makedirs(f, name) ==
  LET head == dirname(name)
      up == IF head # <<>> /\ ~exists(f, head)
            THEN makedirs(f, head)
            ELSE [fs |-> f, ok |-> TRUE]
      leaf == mkdir(up.fs, name)
  IN IF ~up.ok THEN up
     ELSE IF leaf.ok \/ isdir(up.fs, name) THEN [fs |-> leaf.fs, ok |-> TRUE]
     ELSE [fs |-> up.fs, ok |-> FALSE]

\* open(path, "a") in place of open(path, "w"): an existing file keeps its
\* content.
openAppend(f, path) ==
  IF isdir(f, path) \/ ~ParentIsDir(f, path)
  THEN [fs |-> f, ok |-> FALSE]
  ELSE [fs |-> [f EXCEPT ![path] = IF exists(f, path) THEN f[path] ELSE File(0)],
        ok |-> TRUE]

\* open(path, "w") followed by close, nothing written: creates the file or
\* truncates it to length 0.  Fails (IsADirectoryError, FileNotFoundError,
\* NotADirectoryError) on a directory or below something that is no directory.
openW(f, path) ==
  IF isdir(f, path) \/ ~ParentIsDir(f, path)
  THEN [fs |-> f, ok |-> FALSE]
  ELSE [fs |-> [f EXCEPT ![path] = File(0)], ok |-> TRUE]

\* The loop body with the test of the trailing slash inverted: directories
\* are made, no file is opened.
LoopBodyNoOpen(f, path) ==
  LET dir_name == dirname(path)
      made == IF dir_name # <<>> /\ ~exists(f, dir_name)
              THEN makedirs(f, dir_name)
              ELSE [fs |-> f, ok |-> TRUE]
  IN IF ~made.ok THEN made
     ELSE IF endswithSlash(path) THEN openW(made.fs, path)
     ELSE made

\* One iteration of the loop for one entry.
LoopBody(f, path) ==
  LET dir_name == dirname(path)
      made == IF dir_name # <<>> /\ ~exists(f, dir_name)
              THEN makedirs(f, dir_name)
              ELSE [fs |-> f, ok |-> TRUE]
  IN IF ~made.ok THEN made
     ELSE IF ~endswithSlash(path) THEN openW(made.fs, path)
     ELSE made

\* --------------------------------------------------------------- state

VARIABLES
  fs,     \* the file system below the working directory
  i,      \* index of the entry the loop handles next
  pc,     \* "loop", "done" (the message was printed) or "crashed"
  run,    \* which run of the script this is
  start,  \* the file system as the first run found it
  prev    \* the file system as the current run found it

vars == <<fs, i, pc, run, start, prev>>

\* What may exist beforehand: a directory or a regular file of length <= MaxSize.
Kinds == {Dir} \cup {File(n) : n \in 0..MaxSize}

\* The paths the initial states put something at.
Candidates ==
  { <<"src">>, <<"src", "app.js">>, <<"src", "config">>,
    <<"src", "config", "logger.js">>, <<"tests">>, <<"tests", "unit">>,
    <<".env">>, <<"package.json">>, <<"README.md">>, <<"Dockerfile">>,
    <<"notes.txt">>, <<"src", "extra.js">> }

None == <<"-">>

\* A choice of at most MaxPre nodes is a file system when nothing is chosen
\* below a regular file and no path is chosen twice.
Consistent(seed) ==
  \A a, b \in 1..MaxPre :
    (seed[a][1] # None /\ seed[b][1] # None /\ a # b) =>
      /\ seed[a][1] # seed[b][1]
      /\ seed[a][1] \in Ancestors(seed[b][1]) => seed[a][2] = Dir

\* The file system holding the chosen nodes and their ancestor directories.
Populate(seed) ==
  [p \in Paths |->
     IF \E a \in 1..MaxPre : seed[a][1] = p
     THEN (CHOOSE s \in {seed[a] : a \in 1..MaxPre} : s[1] = p)[2]
     ELSE IF \E a \in 1..MaxPre : seed[a][1] # None /\ p \in Ancestors(seed[a][1])
     THEN Dir
     ELSE Absent]

Init ==
  \E seed \in [1..MaxPre -> (Candidates \cup {None}) \X Kinds] :
    /\ Consistent(seed)
    /\ fs = Populate(seed)
    /\ start = fs
    /\ prev = fs
    /\ i = 1
    /\ pc = "loop"
    /\ run = 1

\* An iteration that raises nothing.
Step ==
  /\ pc = "loop"
  /\ i <= Len(estructura)
  /\ LoopBody(fs, estructura[i]).ok
  /\ fs' = LoopBody(fs, estructura[i]).fs
  /\ i' = i + 1
  /\ UNCHANGED <<pc, run, start, prev>>

\* An iteration in which makedirs or open raises: the exception is uncaught.
Raise ==
  /\ pc = "loop"
  /\ i <= Len(estructura)
  /\ ~LoopBody(fs, estructura[i]).ok
  /\ fs' = LoopBody(fs, estructura[i]).fs
  /\ pc' = "crashed"
  /\ UNCHANGED <<i, run, start, prev>>

\* The loop is over: the closing message is printed.
Finish ==
  /\ pc = "loop"
  /\ i > Len(estructura)
  /\ pc' = "done"
  /\ UNCHANGED <<fs, i, run, start, prev>>

\* The script is run again in the directory a finished run left.
Rerun ==
  /\ pc = "done"
  /\ run < MaxRuns
  /\ run' = run + 1
  /\ i' = 1
  /\ pc' = "loop"
  /\ prev' = fs
  /\ UNCHANGED <<fs, start>>

Next == Step \/ Raise \/ Finish \/ Rerun

Spec == Init /\ [][Next]_vars

\* --------------------------------------------------------------- sanity

TypeOK ==
  /\ fs \in [Paths -> {Absent, Dir} \cup {File(n) : n \in 0..MaxSize}]
  /\ i \in 1..(Len(estructura) + 1)
  /\ pc \in {"loop", "done", "crashed"}
  /\ run \in 1..MaxRuns
  /\ start \in [Paths -> {Absent, Dir} \cup {File(n) : n \in 0..MaxSize}]
  /\ prev \in [Paths -> {Absent, Dir} \cup {File(n) : n \in 0..MaxSize}]

\* Whatever exists lies in a directory.
WellFormed == \A p \in Paths : exists(fs, p) => ParentIsDir(fs, p)

\* --------------------------------------------------------------- claims

\* Every ancestor directory of an entry of the list.
ListedDirs == UNION {Ancestors(p) : p \in Listed}

\* None of the listed paths and none of their ancestor directories existed
\* when the first run began.
CleanStart == \A p \in Listed \cup ListedDirs : ~exists(start, p)

\* C1: a first run that ends normally, begun where no listed path and no
\* ancestor directory of one existed, leaves each of the 45 entries as a
\* regular file of length 0 and each ancestor as a directory, and no file is
\* longer than it was before the run.
C1_EmptySkeleton ==
  (run = 1 /\ pc = "done" /\ CleanStart) =>
    /\ Len(estructura) = 45
    /\ Cardinality(Listed) = 45
    /\ \A k \in 1..Len(estructura) : fs[estructura[k]] = File(0)
    /\ \A d \in ListedDirs : fs[d] = Dir
    /\ \A p \in Paths : fs[p].size <= start[p].size

\* C1 witness: the first run has ended normally from a clean directory and the
\* deepest entry and its three ancestor directories are there.
C1_Witness ==
  /\ run = 1 /\ pc = "done" /\ CleanStart
  /\ fs[<<"src", "database", "migrations", ".gitkeep">>] = File(0)
  /\ fs[<<"src", "database", "migrations">>] = Dir
  /\ start[<<"src">>] = Absent

\* C10: (a) after a run that ends normally every listed path is a regular file
\* of length 0, whatever it held before; (b) at any moment of any run, a path
\* that is not listed is as it was before the first run if it existed then, and
\* is still absent if it did not exist and is no ancestor directory of a listed
\* path; (c) a run begun in the directory a finished run left ends with the
\* file system exactly as it found it.
C10_OverwriteIdempotent ==
  /\ pc = "done" => \A p \in Listed : fs[p] = File(0)
  /\ \A p \in Paths \ Listed :
       (exists(start, p) \/ p \notin ListedDirs) => fs[p] = start[p]
  /\ (run >= 2 /\ pc = "done") => fs = prev

\* C10 witness: a second run has ended; before the first run .env held content
\* and is empty now, and the unlisted notes.txt still holds its content.
C10_Witness ==
  /\ run = 2 /\ pc = "done"
  /\ start[<<".env">>].kind = "file" /\ start[<<".env">>].size > 0
  /\ fs[<<".env">>] = File(0)
  /\ start[<<"notes.txt">>].kind = "file" /\ start[<<"notes.txt">>].size > 0
  /\ fs[<<"notes.txt">>] = start[<<"notes.txt">>]

====
